---------------------------- MODULE Spec2Model ----------------------------
(***************************************************************************)
(* Model of NbTs.Validator.validate (native/typescript_validator/src/      *)
(* lib.rs): one call of the NIF, from receiving typescript_code to the     *)
(* returned Ok/Err term.  Strings are sequences of one-character strings,  *)
(* so trim_start, starts_with, contains, format! and join are computed     *)
(* character by character.  The oxc parser and semantic builder are        *)
(* external engines: every outcome they can deliver (a panic caught by     *)
(* catch_unwind, a return value with any panicked flag and any error list) *)
(* is a nondeterministic choice.                                           *)
(***************************************************************************)
EXTENDS Naturals, Sequences, FiniteSets

VARIABLES
    pc,                \* position inside validate
    typescript_code,   \* the argument of the call
    code_to_validate,  \* lib.rs:19 local
    parser_input,      \* the text given to Parser::new (lib.rs:32)
    parser_state,      \* "not_run" | "fault" (catch_unwind Err) | "returned"
    parser_return,     \* lib.rs:35 local: [panicked, errors]
    parser_calls,      \* number of Parser::parse invocations
    semantic_state,    \* "not_run" | "fault" | "returned"
    semantic_return,   \* lib.rs:73 local: [errors]
    semantic_calls,    \* number of SemanticBuilder::build invocations
    result             \* the value returned by validate

vars == <<pc, typescript_code, code_to_validate, parser_input, parser_state,
          parser_return, parser_calls, semantic_state, semantic_return,
          semantic_calls, result>>

---------------------------------------------------------------------------
(* Bounds of the model *)

\* an input is the concatenation of at most MaxPieces pieces of InputPieces
MaxPieces == 2
\* an engine reports at most MaxErrs diagnostics
MaxErrs == 2

---------------------------------------------------------------------------
(* String literals of lib.rs *)

\* "export"
KwExport == <<"e", "x", "p", "o", "r", "t">>
\* "type "
KwType == <<"t", "y", "p", "e", " ">>
\* "interface "
KwInterface == <<"i", "n", "t", "e", "r", "f", "a", "c", "e", " ">>
\* "declare "
KwDeclare == <<"d", "e", "c", "l", "a", "r", "e", " ">>
\* "type __ValidationType = "
WrapPrefix == <<"t", "y", "p", "e", " ", "_", "_", "V", "a", "l", "i", "d", "a", "t", "i", "o", "n", "T", "y", "p", "e", " ", "=", " ">>
\* ";"
WrapSuffix == <<";">>
\* "TypeScript parser encountered an unrecoverable error"
UnrecoverableMsg == <<"T", "y", "p", "e", "S", "c", "r", "i", "p", "t", " ", "p", "a", "r", "s", "e", "r", " ", "e", "n", "c", "o", "u", "n", "t", "e", "r", "e", "d", " ", "a", "n", " ", "u", "n", "r", "e", "c", "o", "v", "e", "r", "a", "b", "l", "e", " ", "e", "r", "r", "o", "r">>
\* "TypeScript syntax error: "
SyntaxErrorLabel == <<"T", "y", "p", "e", "S", "c", "r", "i", "p", "t", " ", "s", "y", "n", "t", "a", "x", " ", "e", "r", "r", "o", "r", ":", " ">>
\* "; "
JoinSep == <<";", " ">>
\* "Cannot find"
PatCannotFind == <<"C", "a", "n", "n", "o", "t", " ", "f", "i", "n", "d">>
\* "module"
PatModule == <<"m", "o", "d", "u", "l", "e">>

---------------------------------------------------------------------------
(* The inputs and engine outputs the model enumerates *)

\* the pieces inputs are built from: white space, the four keywords, the
\* keyword "type" without its blank, and a bare type expression
InputPieces ==
    { <<" ">>, <<"\n">>, KwExport, KwType, KwInterface, KwDeclare,
      <<"t", "y", "p", "e">>, <<"5">> }

RECURSIVE Flatten(_)
Flatten(ss) == IF ss = <<>> THEN <<>> ELSE Head(ss) \o Flatten(Tail(ss))

SeqsUpTo(S, n) == UNION { [1..k -> S] : k \in 0..n }

Inputs == { Flatten(ps) : ps \in SeqsUpTo(InputPieces, MaxPieces) }

\* an OxcDiagnostic: its message and the offset of its label
Diagnostic(msg, at) == [message |-> msg, start |-> at]

\* "Cannot find x", "no module", "Unexpected", "cannot find Module"
Diagnostics ==
    { Diagnostic(<<"C", "a", "n", "n", "o", "t", " ", "f", "i", "n", "d", " ", "x">>, 0),
      Diagnostic(<<"n", "o", " ", "m", "o", "d", "u", "l", "e">>, 1),
      Diagnostic(<<"U", "n", "e", "x", "p", "e", "c", "t", "e", "d">>, 2),
      Diagnostic(<<"c", "a", "n", "n", "o", "t", " ", "f", "i", "n", "d", " ", "M", "o", "d", "u", "l", "e">>, 3) }

ErrorLists == SeqsUpTo(Diagnostics, MaxErrs)

---------------------------------------------------------------------------
(* str and Vec<String> operations used by validate *)

\* the white space of str::trim_start, restricted to the characters of the model
IsWhitespace(c) == c \in {" ", "\t", "\n", "\r"}

RECURSIVE trim_start(_)
trim_start(s) ==
    IF s = <<>> THEN s
    ELSE IF IsWhitespace(Head(s)) THEN trim_start(Tail(s)) ELSE s

starts_with(s, p) == Len(s) >= Len(p) /\ SubSeq(s, 1, Len(p)) = p

contains(s, p) ==
    Len(s) >= Len(p) /\ \E i \in 0..(Len(s) - Len(p)) : SubSeq(s, i + 1, i + Len(p)) = p

RECURSIVE join(_, _)
join(strs, sep) ==
    IF strs = <<>> THEN <<>>
    ELSE IF Len(strs) = 1 THEN strs[1]
    ELSE strs[1] \o sep \o join(Tail(strs), sep)

\* format!("{}", e) of an OxcDiagnostic writes its message
Display(e) == e.message

Ok(v) == [tag |-> "ok", value |-> v]
Err(v) == [tag |-> "error", value |-> v]
NoResult == [tag |-> "none", value |-> <<>>]
NoReturn == [panicked |-> FALSE, errors |-> <<>>]


---------------------------------------------------------------------------
(* validate, lib.rs:8-103 *)

\* lib.rs:19-22: the prefix test on the input with leading white space removed
LooksLikeStatement(code) ==
    \/ starts_with(trim_start(code), KwExport)
    \/ starts_with(trim_start(code), KwType)
    \/ starts_with(trim_start(code), KwInterface)
    \/ starts_with(trim_start(code), KwDeclare)

\* lib.rs:26: format!("type __ValidationType = {};", typescript_code)
WrapAsTypeAlias(code) == WrapPrefix \o code \o WrapSuffix

\* variant: the pass-through branch keeps the trimmed text
CodeToValidateTrimmed(code) ==
    IF LooksLikeStatement(code) THEN trim_start(code) ELSE WrapAsTypeAlias(code)

\* variant: the wrapping branch drops the closing semicolon
CodeToValidateNoSemicolon(code) ==
    IF LooksLikeStatement(code) THEN code ELSE WrapPrefix \o code

\* lib.rs:19-27
CodeToValidate(code) ==
    IF LooksLikeStatement(code) THEN code ELSE WrapAsTypeAlias(code)

\* variant: the caught parser panic is resumed instead of being mapped
ParserPanicResumed == [tag |-> "panic", value |-> <<>>]

\* lib.rs:37-41: catch_unwind returned Err
ParserPanicResult == Err(UnrecoverableMsg)

Messages(errors) == [i \in 1..Len(errors) |-> Display(errors[i])]

\* variant: only the first parser diagnostic is reported
SyntaxErrorResultFirstOnly(errors) ==
    Err(SyntaxErrorLabel \o Display(errors[1]))

\* lib.rs:51-56
SyntaxErrorResult(errors) ==
    Err(SyntaxErrorLabel \o join(Messages(errors), JoinSep))

\* the parser stage let the call go on to semantic analysis
Continue == [tag |-> "continue", value |-> <<>>]

\* variant: the error list is examined before the panicked flag
ParserVerdictErrorsFirst(pr) ==
    IF pr.errors # <<>> THEN SyntaxErrorResult(pr.errors)
    ELSE IF pr.panicked THEN Err(UnrecoverableMsg)
    ELSE Continue

\* variant: parser diagnostics do not stop the call
ParserVerdictIgnoresErrors(pr) ==
    IF pr.panicked THEN Err(UnrecoverableMsg) ELSE Continue

\* lib.rs:44-57
ParserVerdict(pr) ==
    IF pr.panicked THEN Err(UnrecoverableMsg)
    ELSE IF pr.errors # <<>> THEN SyntaxErrorResult(pr.errors)
    ELSE Continue

\* variant: a semantic panic is reported like a parser panic
SemanticPanicRejected == Err(UnrecoverableMsg)

\* variant: the text that was parsed is returned
SemanticPanicNormalized == Ok(code_to_validate)

\* lib.rs:75-79: catch_unwind returned Err
SemanticPanicResult == Ok(typescript_code)

\* variant: only the "Cannot find" pattern is filtered
KeepDiagnosticCannotFindOnly(e) == ~contains(Display(e), PatCannotFind)

\* lib.rs:88-92
KeepDiagnostic(e) ==
    ~contains(Display(e), PatCannotFind) /\ ~contains(Display(e), PatModule)

\* variant: every semantic diagnostic is reported
FilteredErrorsUnfiltered(errors) == Messages(errors)

\* lib.rs:86-94: the local syntax_errors
FilteredErrors(errors) == Messages(SelectSeq(errors, KeepDiagnostic))

\* variant: the text that was parsed is returned on success
AcceptedNormalized == Ok(code_to_validate)

\* lib.rs:102
Accepted == Ok(typescript_code)

\* variant: any semantic diagnostic, filtered or not, rejects the call
FinalResultRejectsAll(sr) ==
    IF sr.errors # <<>>
    THEN Err(SyntaxErrorLabel \o join(FilteredErrors(sr.errors), JoinSep))
    ELSE Accepted

\* lib.rs:84-102
FinalResult(sr) ==
    IF sr.errors # <<>> /\ FilteredErrors(sr.errors) # <<>>
    THEN Err(SyntaxErrorLabel \o join(FilteredErrors(sr.errors), JoinSep))
    ELSE Accepted

---------------------------------------------------------------------------
(* Steps of one call *)

Init ==
    /\ pc = "idle"
    /\ typescript_code = <<>>
    /\ code_to_validate = <<>>
    /\ parser_input = <<>>
    /\ parser_state = "not_run"
    /\ parser_return = NoReturn
    /\ parser_calls = 0
    /\ semantic_state = "not_run"
    /\ semantic_return = [errors |-> <<>>]
    /\ semantic_calls = 0
    /\ result = NoResult

\* lib.rs:8-27: the NIF is entered with its argument and normalizes it
Call ==
    /\ pc = "idle"
    /\ \E code \in Inputs :
          /\ typescript_code' = code
          /\ code_to_validate' = CodeToValidate(code)
    /\ pc' = "parse"
    /\ UNCHANGED <<parser_input, parser_state, parser_return, parser_calls,
                   semantic_state, semantic_return, semantic_calls, result>>

\* lib.rs:31-41: Parser::parse panics, catch_unwind yields Err
ParserPanics ==
    /\ pc = "parse"
    /\ parser_input' = code_to_validate
    /\ parser_calls' = parser_calls + 1
    /\ parser_state' = "fault"
    /\ result' = ParserPanicResult
    /\ pc' = "done"
    /\ UNCHANGED <<typescript_code, code_to_validate, parser_return,
                   semantic_state, semantic_return, semantic_calls>>

\* lib.rs:31-36: Parser::parse returns a ParserReturn
ParserReturns ==
    /\ pc = "parse"
    /\ parser_input' = code_to_validate
    /\ parser_calls' = parser_calls + 1
    /\ parser_state' = "returned"
    /\ \E panicked \in BOOLEAN, errors \in ErrorLists :
          parser_return' = [panicked |-> panicked, errors |-> errors]
    /\ pc' = "parsed"
    /\ UNCHANGED <<typescript_code, code_to_validate,
                   semantic_state, semantic_return, semantic_calls, result>>

\* lib.rs:44-57: the panicked flag, then the parser's error list
CheckParserReturn ==
    /\ pc = "parsed"
    /\ IF ParserVerdict(parser_return) = Continue
       THEN pc' = "semantic" /\ UNCHANGED result
       ELSE pc' = "done" /\ result' = ParserVerdict(parser_return)
    /\ UNCHANGED <<typescript_code, code_to_validate, parser_input, parser_state,
                   parser_return, parser_calls, semantic_state, semantic_return,
                   semantic_calls>>

\* lib.rs:65-79: SemanticBuilder::build panics, catch_unwind yields Err
SemanticPanics ==
    /\ pc = "semantic"
    /\ semantic_calls' = semantic_calls + 1
    /\ semantic_state' = "fault"
    /\ result' = SemanticPanicResult
    /\ pc' = "done"
    /\ UNCHANGED <<typescript_code, code_to_validate, parser_input, parser_state,
                   parser_return, parser_calls, semantic_return>>

\* lib.rs:65-74: SemanticBuilder::build returns a SemanticBuilderReturn
SemanticReturns ==
    /\ pc = "semantic"
    /\ semantic_calls' = semantic_calls + 1
    /\ semantic_state' = "returned"
    /\ \E errors \in ErrorLists : semantic_return' = [errors |-> errors]
    /\ pc' = "filter"
    /\ UNCHANGED <<typescript_code, code_to_validate, parser_input, parser_state,
                   parser_return, parser_calls, result>>

\* lib.rs:82-102: filter the semantic diagnostics and return
FilterAndReturn ==
    /\ pc = "filter"
    /\ result' = FinalResult(semantic_return)
    /\ pc' = "done"
    /\ UNCHANGED <<typescript_code, code_to_validate, parser_input, parser_state,
                   parser_return, parser_calls, semantic_state, semantic_return,
                   semantic_calls>>

Next ==
    \/ Call
    \/ ParserPanics
    \/ ParserReturns
    \/ CheckParserReturn
    \/ SemanticPanics
    \/ SemanticReturns
    \/ FilterAndReturn

Spec == Init /\ [][Next]_vars

---------------------------------------------------------------------------
(* Properties.  The texts the properties quote are written out here, apart *)
(* from the literals of the model above.                                   *)

\* "type __ValidationType = "
QuotedAliasHead == <<"t", "y", "p", "e", " ", "_", "_", "V", "a", "l", "i", "d", "a", "t", "i", "o", "n", "T", "y", "p", "e", " ", "=", " ">>
\* "TypeScript syntax error: "
QuotedSyntaxLabel == <<"T", "y", "p", "e", "S", "c", "r", "i", "p", "t", " ", "s", "y", "n", "t", "a", "x", " ", "e", "r", "r", "o", "r", ":", " ">>
\* "TypeScript parser encountered an unrecoverable error"
QuotedUnrecoverable == <<"T", "y", "p", "e", "S", "c", "r", "i", "p", "t", " ", "p", "a", "r", "s", "e", "r", " ", "e", "n", "c", "o", "u", "n", "t", "e", "r", "e", "d", " ", "a", "n", " ", "u", "n", "r", "e", "c", "o", "v", "e", "r", "a", "b", "l", "e", " ", "e", "r", "r", "o", "r">>
\* "export", "type ", "interface ", "declare "
QuotedKeywords ==
    { <<"e", "x", "p", "o", "r", "t">>, <<"t", "y", "p", "e", " ">>,
      <<"i", "n", "t", "e", "r", "f", "a", "c", "e", " ">>,
      <<"d", "e", "c", "l", "a", "r", "e", " ">> }
\* "Cannot find", "module"
QuotedArtifacts ==
    { <<"C", "a", "n", "n", "o", "t", " ", "f", "i", "n", "d">>,
      <<"m", "o", "d", "u", "l", "e">> }

\* p occurs in s at offset i
OccursAt(p, s, i) ==
    i + Len(p) <= Len(s) /\ \A j \in 1..Len(p) : s[i + j] = p[j]
Occurs(p, s) == \E i \in 0..Len(s) : OccursAt(p, s, i)

\* s is some white space followed by one of the keywords
BeginsWithKeyword(s) ==
    \E n \in 0..Len(s), k \in QuotedKeywords :
        /\ \A j \in 1..n : s[j] \in {" ", "\t", "\n", "\r"}
        /\ OccursAt(k, s, n)

WrappedForm(s) == QuotedAliasHead \o s \o <<";">>

IsArtifact(msg) == \E p \in QuotedArtifacts : Occurs(p, msg)

\* the messages of ds joined by "; ", built from the last one backwards
RECURSIVE JoinedMessages(_)
JoinedMessages(ds) ==
    IF ds = <<>> THEN <<>>
    ELSE IF Len(ds) = 1 THEN ds[1].message
    ELSE JoinedMessages(SubSeq(ds, 1, Len(ds) - 1)) \o <<";", " ">> \o ds[Len(ds)].message

IsGenuine(d) == ~IsArtifact(d.message)
Survivors(ds) == SelectSeq(ds, IsGenuine)

Returned == pc = "done"
ParserClean ==
    parser_state = "returned" /\ ~parser_return.panicked /\ parser_return.errors = <<>>

\* C1: whenever validate returns Accepted(r), r is the input itself and not
\* the wrapped form `type __ValidationType = <input>;`, on both acceptance
\* paths.
RoundTripIdentity ==
    (Returned /\ result.tag = "ok") =>
        /\ result.value = typescript_code
        /\ result.value # WrappedForm(typescript_code)

\* an accepted call whose input was wrapped for parsing and whose semantic
\* pass completed with diagnostics that were all filtered out
RoundTripWitness ==
    /\ Returned /\ result.tag = "ok"
    /\ parser_input = WrappedForm(typescript_code)
    /\ semantic_state = "returned" /\ semantic_return.errors # <<>>

\* C2 as stated: whenever the parser reports one or more syntax-error
\* diagnostics, validate returns Rejected("TypeScript syntax error: " followed
\* by all of them, in order, joined by "; ").
SyntaxErrorsAlwaysLabelled ==
    (Returned /\ parser_state = "returned" /\ parser_return.errors # <<>>) =>
        result = [tag |-> "error",
                  value |-> QuotedSyntaxLabel \o JoinedMessages(parser_return.errors)]

\* C2 amended: whenever the parser returns with the panicked flag clear and
\* reports one or more syntax-error diagnostics, validate returns
\* Rejected("TypeScript syntax error: " followed by all of them, unfiltered
\* and in order, joined by "; ").
SyntaxErrorsLabelledUnlessPanicked ==
    (Returned /\ parser_state = "returned" /\ ~parser_return.panicked
       /\ parser_return.errors # <<>>) =>
        result = [tag |-> "error",
                  value |-> QuotedSyntaxLabel \o JoinedMessages(parser_return.errors)]

\* a rejected call whose parser reported two different diagnostics, the
\* first of which the semantic filter would have dropped
SyntaxErrorsWitness ==
    /\ Returned /\ parser_state = "returned" /\ ~parser_return.panicked
    /\ Len(parser_return.errors) >= 2
    /\ IsArtifact(parser_return.errors[1].message)
    /\ parser_return.errors[1] # parser_return.errors[2]
    /\ result.tag = "error"

SemanticFaultBenign ==
    (Returned /\ ParserClean /\ semantic_state = "fault") =>
        result = [tag |-> "ok", value |-> typescript_code]

\* the semantic checker panicked on a wrapped input and the call returned
SemanticFaultWitness ==
    /\ Returned /\ ParserClean /\ semantic_state = "fault"
    /\ parser_input # typescript_code
    /\ result.tag = "ok"

\* C5: no semantic diagnostic containing "Cannot find" or "module" occurs in
\* the rejection message, also when other semantic diagnostics are reported
\* in it; and when every semantic diagnostic is such an artifact the call is
\* accepted.
ArtifactsNeverSurface ==
    (Returned /\ semantic_state = "returned") =>
        /\ result.tag = "error" =>
              /\ \A i \in 1..Len(semantic_return.errors) :
                    IsArtifact(semantic_return.errors[i].message) =>
                        ~Occurs(semantic_return.errors[i].message, result.value)
              /\ ~IsArtifact(result.value)
        /\ (\A i \in 1..Len(semantic_return.errors) :
                IsArtifact(semantic_return.errors[i].message)) =>
              result = [tag |-> "ok", value |-> typescript_code]

\* a rejection whose semantic diagnostics mix an artifact with a genuine one
ArtifactsWitness ==
    /\ Returned /\ semantic_state = "returned" /\ result.tag = "error"
    /\ \E i, j \in 1..Len(semantic_return.errors) :
          /\ IsArtifact(semantic_return.errors[i].message)
          /\ ~IsArtifact(semantic_return.errors[j].message)

\* C6: an input that, after its leading white space, begins with "export",
\* "type ", "interface " or "declare " is handed to the parser unmodified,
\* leading white space included.
NormalizerPassThrough ==
    (parser_calls > 0 /\ BeginsWithKeyword(typescript_code)) =>
        parser_input = typescript_code

\* the parser was given an input with leading white space before a keyword
PassThroughWitness ==
    /\ parser_calls > 0 /\ BeginsWithKeyword(typescript_code)
    /\ typescript_code[1] \in {" ", "\n"}
    /\ parser_input = typescript_code

\* C7: every other input is handed to the parser as
\* `type __ValidationType = <input>;` with the input untrimmed.
NormalizerWraps ==
    (parser_calls > 0 /\ ~BeginsWithKeyword(typescript_code)) =>
        parser_input = WrappedForm(typescript_code)

\* the parser was given the wrapping of an input with leading white space
WrapWitness ==
    /\ parser_calls > 0 /\ ~BeginsWithKeyword(typescript_code)
    /\ Len(typescript_code) >= 2 /\ typescript_code[1] = " "
    /\ parser_input = WrappedForm(typescript_code)

\* C8: the semantic checker is invoked at most once, and only after the
\* parser returned without panic, with the panicked flag clear and no
\* syntax errors; a call ending in a parser fault or a syntax-error
\* rejection never invokes it.
StageOrdering ==
    /\ semantic_calls <= 1
    /\ (semantic_calls > 0 \/ semantic_state # "not_run" \/ pc \in {"semantic", "filter"}) =>
          parser_calls = 1 /\ ParserClean
    /\ (Returned /\ ~ParserClean) =>
          semantic_calls = 0 /\ semantic_state = "not_run"

\* a call that ran the semantic checker once and returned
StageOrderingWitness ==
    Returned /\ semantic_calls = 1 /\ parser_calls = 1

\* C9: when the semantic checker completes, validate returns
\* Rejected("TypeScript syntax error: " followed by the surviving
\* diagnostics, in their order, joined by "; ") if any diagnostic contains
\* neither "Cannot find" nor "module", and Accepted(original input)
\* otherwise.
FilterOutcome ==
    (Returned /\ semantic_state = "returned") =>
        result =
            IF Survivors(semantic_return.errors) # <<>>
            THEN [tag |-> "error",
                  value |-> QuotedSyntaxLabel
                              \o JoinedMessages(Survivors(semantic_return.errors))]
            ELSE [tag |-> "ok", value |-> typescript_code]

\* a rejection carrying two different surviving semantic diagnostics
FilterOutcomeWitness ==
    /\ Returned /\ semantic_state = "returned"
    /\ Len(Survivors(semantic_return.errors)) = 2
    /\ Survivors(semantic_return.errors)[1] # Survivors(semantic_return.errors)[2]
    /\ result.tag = "error"

\* C10: a call ends with exactly one of Accepted(original input) or
\* Rejected(non-empty string); before that it has no result and always has
\* a next step, whatever the engines do.
ExactlyOneOutcome ==
    /\ Returned =>
          \/ result.tag = "ok" /\ result.value = typescript_code
          \/ result.tag = "error" /\ result.value # <<>>
    /\ ~Returned => result = NoResult /\ ENABLED Next

\* a call that ended through the parser's fault barrier
ExactlyOneOutcomeWitness ==
    Returned /\ parser_state = "fault" /\ result.tag = "error"

=============================================================================
